---- MODULE Spec2Model ----
(***************************************************************************)
(* ttxi: a teletext packet decoder driving a terminal character generator. *)
(* The module models the page selector (PageInput), the session decoder    *)
(* (Decoder), the character generator's grid (CharGen) and the event       *)
(* multiplexer of main.rs, and states the verified properties about them.  *)
(*                                                                         *)
(* Bytes are integers 0..255.  A Rust slice s[a..b] (0-based, half open)   *)
(* is Slice(s, a, b) on a 1-based TLA+ sequence.                           *)
(***************************************************************************)
EXTENDS Integers, Sequences, FiniteSets, TLC

VARIABLES
    decoder,    \* the Decoder struct: header_matched, header_locked, pageinput, chargen
    ev,         \* the event the consumer processed last
    after_match,\* history: the event before ev was a processed header equal to the PageKey
    confirmed,  \* history: a header equal to the current PageKey was processed since it was committed
    entry,      \* history: the buttons pressed since the selector was last Idle
    nkeys,      \* history: number of buttons pressed (selector specification only)
    mux,        \* the event multiplexer: the workers, the channel and the loop's position
    term        \* the terminal: its modes, its text attributes and the commands it was sent

vars == <<decoder, ev, after_match, confirmed, entry, nkeys, mux, term>>

----------------------------------------------------------------------------
(* Sequence helpers *)

Slice(s, a, b) == SubSeq(s, a + 1, b)

SliceFrom(s, a) == SubSeq(s, a + 1, Len(s))

Fill(n, b) == [i \in 1..n |-> b]

----------------------------------------------------------------------------
(* coding.rs is not among the sources: its functions are modelled from the *)
(* specification (section 4.1) and the teletext packet layout.             *)

\* Hamming 8/4 code words of the nibbles 0..15 (used to build input packets).
Hamming8Enc == <<21, 2, 73, 94, 100, 115, 56, 47, 208, 199, 140, 155, 161, 182, 253, 234>>

hamming8_encode(n) == Hamming8Enc[n + 1]

\* Best-effort total decode: the data bits are bits 1, 3, 5 and 7 of the byte.
hamming8_decode(b) ==
    ((b \div 2) % 2) + 2 * ((b \div 8) % 2) + 4 * ((b \div 32) % 2) + 8 * ((b \div 128) % 2)

\* (magazine 0..7, row 0..31) from the first two packet bytes.
mrag(bs) ==
    LET a == hamming8_decode(bs[1])
        b == hamming8_decode(bs[2])
    IN  <<a % 8, (a \div 8) + 2 * b>>

\* Page number: low nibble first, then high nibble.
hamming16_decode(bs) == hamming8_decode(bs[1]) + 16 * hamming8_decode(bs[2])

\* Control flags of a header; bit 0 is erase-page (C4, top bit of the second byte).
control_bits(bs) ==
    (hamming8_decode(bs[2]) \div 8)
    + 2 * (hamming8_decode(bs[4]) \div 4)
    + 8 * hamming8_decode(bs[5])
    + 128 * hamming8_decode(bs[6])

\* 0..15 to the ASCII hex digit glyph, and back.
u8_to_ascii(n) == IF n < 10 THEN 48 + n ELSE 55 + n

ascii_to_u8(c) ==
    IF c \in 48..57 THEN c - 48
    ELSE IF c \in 65..70 THEN c - 55
    ELSE IF c \in 97..102 THEN c - 87
    ELSE 0

----------------------------------------------------------------------------
(* decoder.rs: PageInput *)

PageInputDefault ==
    [ mag |-> 1, page |-> 0, hold |-> FALSE, manual_hold |-> FALSE,
      input |-> <<32, 80, 49, 48, 48, 2>>, input_pos |-> 2 ]

\* input[k] in Rust is input[k + 1] here.
cancel(pi) ==
    [pi EXCEPT !.input = <<32, 80, u8_to_ascii(pi.mag), u8_to_ascii(pi.page \div 16),
                           u8_to_ascii(pi.page % 16), 2>>,
               !.input_pos = 2]

\* A commit that forgets the & 0x7 on the magazine digit.
input_commit_nomask(pi) ==
    [pi EXCEPT !.input = [@ EXCEPT ![1] = 32, ![6] = 2],
               !.input_pos = 2,
               !.mag = ascii_to_u8(pi.input[3]),
               !.page = ((ascii_to_u8(pi.input[4]) * 16) % 256)
                        + ascii_to_u8(pi.input[5]),
               !.hold = FALSE]

\* decoder.rs:55-62, the commit once the low page digit is in.
input_commit(pi) ==
    [pi EXCEPT !.input = [@ EXCEPT ![1] = 32, ![6] = 2],
               !.input_pos = 2,
               !.mag = ascii_to_u8(pi.input[3]) % 8,
               !.page = ((ascii_to_u8(pi.input[4]) * 16) % 256)
                        + ascii_to_u8(pi.input[5]),
               !.hold = FALSE]

input(pi0, b) ==
    LET pi == IF pi0.manual_hold THEN cancel(pi0) ELSE pi0
    IN  IF b \in 1..8 /\ pi.input_pos = 2
        THEN [pi EXCEPT !.input = <<2, 80, u8_to_ascii(b), 46, 46, 7>>,
                        !.input_pos = @ + 1,
                        !.hold = TRUE]
        ELSE IF b \in 0..15 /\ pi.input_pos \in {3, 4}
        THEN LET p1 == [pi EXCEPT !.input[pi.input_pos + 1] = u8_to_ascii(b),
                                  !.input_pos = @ + 1]
             IN  IF p1.input_pos = 5 THEN input_commit(p1) ELSE p1
        ELSE pi

toggle_hold(pi0) ==
    LET pi == [pi0 EXCEPT !.manual_hold = ~@, !.hold = ~pi0.manual_hold]
    IN  IF ~pi.hold
        THEN cancel(pi)
        ELSE [pi EXCEPT !.input = <<1, 72, 79, 76, 68, 7>>]

----------------------------------------------------------------------------
(* chargen.rs: CharGen.  The field out is the sequence of character        *)
(* generator calls made by the handler that ran last, in call order; each  *)
(* call that reaches the terminal is one entry.                            *)

Rows == 0..25

NoData == <<>>

Call(op, row, col, data, old) ==
    [op |-> op, row |-> row, col |-> col, data |-> data, old |-> old]

\* chargen.rs:62-68
CharGenNew ==
    [ grid |-> [r \in Rows |-> Fill(40, 0)], mix |-> FALSE, reveal |-> FALSE,
      margins |-> [top |-> 0, left |-> 0], out |-> <<>> ]

\* The call is recorded with the 40 bytes of the row it draws.
render_row(cg, row) ==
    [cg EXCEPT !.out = Append(@, Call("render_row", row, 0, cg.grid[row], NoData))]

\* A write that redraws the row even when nothing changed.
insert_data_always(cg, row, col, data) ==
    LET old == SubSeq(cg.grid[row], col + 1, col + Len(data))
        c1  == [cg EXCEPT !.out = Append(@, Call("insert_data", row, col, data, old)),
                          !.grid[row] = [i \in 1..40 |->
                              IF i \in (col + 1)..(col + Len(data)) THEN data[i - col] ELSE @[i]]]
    IN  render_row(c1, row)

\* The slice grid[row][col..col + len] is in range.
in_range(row, col, len) == row \in Rows /\ col + len <= 40

\* chargen.rs:251-258.  A slice out of range is an index panic at line 252: the call
\* is recorded as "panic" and the grid is left alone.
insert_data(cg, row, col, data) ==
    IF ~in_range(row, col, Len(data))
    THEN [cg EXCEPT !.out = Append(@, Call("panic", row, col, data, NoData))]
    ELSE
    LET old == SubSeq(cg.grid[row], col + 1, col + Len(data))
        c0  == [cg EXCEPT !.out = Append(@, Call("insert_data", row, col, data, old))]
    IN  IF old # data
        THEN render_row(
                 [c0 EXCEPT !.grid[row] = [i \in 1..40 |->
                     IF i \in (col + 1)..(col + Len(data)) THEN data[i - col] ELSE @[i]]],
                 row)
        ELSE c0

\* rows 1..24 are blanked; the terminal lines are cleared without render_row.
clear_page(cg) ==
    [cg EXCEPT !.grid = [r \in Rows |-> IF r \in 1..24 THEN Fill(40, 0) ELSE @[r]],
               !.out = Append(@, Call("clear_page", 1, 0, NoData, NoData))]

RECURSIVE render_rows(_, _, _)
render_rows(cg, row, end) ==
    IF row >= end THEN cg ELSE render_rows(render_row(cg, row), row + 1, end)

redraw(cg) ==
    render_rows([cg EXCEPT !.out = Append(@, Call("redraw", 0, 0, NoData, NoData))], 0, 25)

reveal(cg) == redraw([cg EXCEPT !.reveal = ~@])

mix(cg) == redraw([cg EXCEPT !.mix = ~@])

auto_margins(cg, cols, rows) ==
    redraw([cg EXCEPT
        !.margins = [ left |-> IF cols < 41 THEN 0 ELSE (cols - 41) \div 2,
                      top  |-> IF rows < 26 THEN 0
                               ELSE (rows - 26) - ((rows - 26) \div 2) ]])

----------------------------------------------------------------------------
(* chargen.rs: the terminal behind io::stdout().  The modes are raw input, *)
(* the alternate screen, the cursor and line wrap; the text attributes are *)
(* hidden and blink.  cmds is every mode command the terminal was sent.    *)

\* The terminal as the program finds it.
TermFound ==
    [ raw |-> FALSE, alt |-> FALSE, cursor |-> TRUE, wrap |-> TRUE,
      hidden |-> FALSE, blink |-> FALSE, misprint |-> FALSE, cmds |-> <<>> ]

\* What one mode command does to the terminal.
term_command(t, c) ==
    LET t1 == [t EXCEPT !.cmds = Append(@, c)]
    IN  CASE c = "enable_raw_mode"      -> [t1 EXCEPT !.raw = TRUE]
          [] c = "disable_raw_mode"     -> [t1 EXCEPT !.raw = FALSE]
          [] c = "EnterAlternateScreen" -> [t1 EXCEPT !.alt = TRUE]
          [] c = "LeaveAlternateScreen" -> [t1 EXCEPT !.alt = FALSE]
          [] c = "DisableLineWrap"      -> [t1 EXCEPT !.wrap = FALSE]
          [] c = "EnableLineWrap"       -> [t1 EXCEPT !.wrap = TRUE]
          [] c = "Hide"                 -> [t1 EXCEPT !.cursor = FALSE]
          [] c = "Show"                 -> [t1 EXCEPT !.cursor = TRUE]
          [] OTHER                      -> t1

RECURSIVE term_commands(_, _)
term_commands(t, cs) ==
    IF cs = <<>> THEN t ELSE term_commands(term_command(t, Head(cs)), Tail(cs))

\* chargen.rs:71-77, the commands of the execute! in CharGen::new.
AcquireCommands == <<"EnterAlternateScreen", "Clear", "DisableLineWrap", "Hide", "SetTitle">>

\* chargen.rs:46-50, the commands of the execute! in drop.
ReleaseCommands == <<"Show", "EnableLineWrap", "LeaveAlternateScreen">>

\* chargen.rs:44-53, a drop in which every call succeeds.
drop(t) == term_command(term_commands(t, ReleaseCommands), "disable_raw_mode")

\* chargen.rs:46-50, a drop whose execute! fails after n commands: expect panics
\* and disable_raw_mode is not reached.
drop_panics(t, n) == term_commands(t, SubSeq(ReleaseCommands, 1, n))

\* A size check that refuses only a terminal short in both directions.
too_small_both(cols, rows) == cols < 41 /\ rows < 25

\* chargen.rs:58
too_small(cols, rows) == cols < 41 \/ rows < 25

\* The terminal once CharGen::new has returned Ok.
TermAcquired == term_commands(term_command(TermFound, "enable_raw_mode"), AcquireCommands)

\* The display byte decoder of the teletext crate, as far as conceal and flash go:
\* flash (0x08) is set for the cells after it, steady (0x09) from its own cell on,
\* conceal (0x18) from its own cell on until a colour code (0x01-0x07, 0x11-0x17),
\* which takes effect for the cells after it.
StateNew == [conceal |-> FALSE, flash |-> FALSE]

state_next(st, byte) ==
    LET el == [conceal |-> (st.conceal \/ byte = 24), flash |-> (st.flash /\ byte # 9)]
    IN  [ element |-> el,
          state |-> [ conceal |-> IF (byte >= 1 /\ byte <= 7) \/ (byte >= 17 /\ byte <= 23)
                                      THEN FALSE ELSE el.conceal,
                      flash   |-> IF byte = 8 THEN TRUE ELSE el.flash ] ]

\* chargen.rs:198-240, the loop over the bytes of the row: a is the terminal's hidden
\* and blink attribute, cur is current_conceal and current_flash, st the decoder
\* state, i the cell; an attribute is sent when it differs from cur, then the glyph
\* is printed.  misprint records a glyph printed while the terminal's hidden or
\* blink attribute differs from the cell's conceal or flash.
\* (The test on a.misprint is never true: it has TLC evaluate a at each cell
\* instead of nesting 40 unevaluated terminals.)
RECURSIVE print_cells(_, _, _, _, _, _)
print_cells(a, cur, st, cells, i, rev) ==
    IF i > Len(cells) \/ a.misprint \notin BOOLEAN THEN a
    ELSE LET n       == state_next(st, cells[i])
             conceal == n.element.conceal /\ ~rev
             flash   == n.element.flash
             hidden  == IF conceal # cur.conceal THEN conceal ELSE a.hidden
             blink   == IF flash # cur.flash THEN flash ELSE a.blink
         IN  print_cells([ hidden |-> hidden, blink |-> blink,
                           misprint |-> (a.misprint \/ hidden # conceal \/ blink # flash) ],
                         [conceal |-> conceal, flash |-> flash], n.state, cells, i + 1, rev)

\* chargen.rs:186-249 on the terminal: current_conceal and current_flash start false.
render_row_print(t, cells, rev) ==
    LET a == print_cells([hidden |-> t.hidden, blink |-> t.blink, misprint |-> t.misprint],
                         [conceal |-> FALSE, flash |-> FALSE], StateNew, cells, 1, rev)
    IN  [t EXCEPT !.hidden = a.hidden, !.blink = a.blink, !.misprint = a.misprint]

RECURSIVE print_calls(_, _, _)
print_calls(t, calls, rev) ==
    IF calls = <<>> \/ t.misprint \notin BOOLEAN THEN t
    ELSE print_calls(IF Head(calls).op = "render_row"
                     THEN render_row_print(t, Head(calls).data, rev) ELSE t,
                     Tail(calls), rev)

\* The terminal after the calls of one handler, cg being the character generator
\* the handler leaves.  reveal changes only before the first render_row of a handler
\* (chargen.rs:152), so every row of cg.out was drawn with cg.reveal.
Display(t, cg) == print_calls([t EXCEPT !.misprint = FALSE], cg.out, cg.reveal)

----------------------------------------------------------------------------
(* decoder.rs: Decoder *)

\* keymap.rs: Button.  x is the digit of Digit and the index of Fastext.
Button(b, x) == [b |-> b, x |-> x]

\* decoder.rs:105-116, after CharGen::new succeeded on a cols x rows terminal.
DecoderNew(cols, rows) ==
    LET pi == PageInputDefault
        c1 == insert_data(CharGenNew, 0, 2, pi.input)
    IN  [ header_matched |-> FALSE, header_locked |-> FALSE, pageinput |-> pi,
          chargen |-> auto_margins(c1, cols, rows) ]

\* A header handler that forgets to lock on a match.
process_header_nolock(d, packet) ==
    LET page == hamming16_decode(Slice(packet, 2, 4))
        d1 == [d EXCEPT !.header_matched = (page = d.pageinput.page)]
        d2 == [d1 EXCEPT !.chargen =
                  IF d1.header_locked
                  THEN insert_data(@, 0, 31, SliceFrom(packet, 33))
                  ELSE insert_data(@, 0, 8, SliceFrom(packet, 10))]
    IN  IF d2.header_matched
        THEN LET d3 == [d2 EXCEPT !.chargen = insert_data(@, 0, 7, <<7>>)]
                 control == control_bits(Slice(packet, 4, 12))
             IN  IF control % 2 = 1
                 THEN [d3 EXCEPT !.chargen = clear_page(@)]
                 ELSE d3
        ELSE d2

\* A header handler that clears the page before it writes the header text.
process_header_clearfirst(d, packet) ==
    LET page == hamming16_decode(Slice(packet, 2, 4))
        control == control_bits(Slice(packet, 4, 12))
        d1 == [d EXCEPT !.header_matched = (page = d.pageinput.page)]
        d2 == IF d1.header_matched /\ control % 2 = 1
              THEN [d1 EXCEPT !.chargen = clear_page(@)]
              ELSE d1
        d3 == [d2 EXCEPT !.chargen =
                  IF d2.header_locked
                  THEN insert_data(@, 0, 31, SliceFrom(packet, 33))
                  ELSE insert_data(@, 0, 8, SliceFrom(packet, 10))]
    IN  IF d3.header_matched
        THEN [d3 EXCEPT !.header_locked = TRUE,
                        !.chargen = insert_data(@, 0, 7, <<7>>)]
        ELSE d3

\* A header handler that writes all 40 data bytes of the packet at column 8.
process_header_wide(d, packet) ==
    LET page == hamming16_decode(Slice(packet, 2, 4))
        d1 == [d EXCEPT !.header_matched = (page = d.pageinput.page)]
        d2 == [d1 EXCEPT !.chargen =
                  IF d1.header_locked
                  THEN insert_data(@, 0, 31, SliceFrom(packet, 33))
                  ELSE insert_data(@, 0, 8, SliceFrom(packet, 2))]
    IN  IF d2.header_matched
        THEN LET d3 == [d2 EXCEPT !.header_locked = TRUE,
                                  !.chargen = insert_data(@, 0, 7, <<7>>)]
                 control == control_bits(Slice(packet, 4, 12))
             IN  IF control % 2 = 1
                 THEN [d3 EXCEPT !.chargen = clear_page(@)]
                 ELSE d3
        ELSE d2

\* A header handler that writes the header's data bytes from column 2 on.
process_header_over(d, packet) ==
    LET page == hamming16_decode(Slice(packet, 2, 4))
        d1 == [d EXCEPT !.header_matched = (page = d.pageinput.page)]
        d2 == [d1 EXCEPT !.chargen =
                  IF d1.header_locked
                  THEN insert_data(@, 0, 31, SliceFrom(packet, 33))
                  ELSE insert_data(@, 0, 2, SliceFrom(packet, 4))]
    IN  IF d2.header_matched
        THEN LET d3 == [d2 EXCEPT !.header_locked = TRUE,
                                  !.chargen = insert_data(@, 0, 7, <<7>>)]
                 control == control_bits(Slice(packet, 4, 12))
             IN  IF control % 2 = 1
                 THEN [d3 EXCEPT !.chargen = clear_page(@)]
                 ELSE d3
        ELSE d2

\* decoder.rs:122-140, the header row of the selected magazine.
process_header(d, packet) ==
    LET page == hamming16_decode(Slice(packet, 2, 4))
        d1 == [d EXCEPT !.header_matched = (page = d.pageinput.page)]
        d2 == [d1 EXCEPT !.chargen =
                  IF d1.header_locked
                  THEN insert_data(@, 0, 31, SliceFrom(packet, 33))
                  ELSE insert_data(@, 0, 8, SliceFrom(packet, 10))]
    IN  IF d2.header_matched
        THEN LET d3 == [d2 EXCEPT !.header_locked = TRUE,
                                  !.chargen = insert_data(@, 0, 7, <<7>>)]
                 control == control_bits(Slice(packet, 4, 12))
             IN  IF control % 2 = 1
                 THEN [d3 EXCEPT !.chargen = clear_page(@)]
                 ELSE d3
        ELSE d2

\* A packet handler that does not look at hold.
process_packet_nohold(d, packet) ==
    LET a   == mrag(Slice(packet, 0, 2))
        mg  == a[1]
        row == a[2]
    IN  IF mg = d.pageinput.mag
        THEN IF row = 0
             THEN process_header(d, packet)
             ELSE IF row \in 1..24
             THEN IF d.header_matched
                  THEN [d EXCEPT !.chargen = insert_data(@, row, 0, SliceFrom(packet, 2))]
                  ELSE d
             ELSE d
        ELSE d

process_packet(d, packet) ==
    LET a   == mrag(Slice(packet, 0, 2))
        mg  == a[1]
        row == a[2]
    IN  IF ~d.pageinput.hold /\ mg = d.pageinput.mag
        THEN IF row = 0
             THEN process_header(d, packet)
             ELSE IF row \in 1..24
             THEN IF d.header_matched
                  THEN [d EXCEPT !.chargen = insert_data(@, row, 0, SliceFrom(packet, 2))]
                  ELSE d
             ELSE d
        ELSE d

process_button(d, button) ==
    IF button.b = "Digit"
    THEN LET d1 == [d EXCEPT !.pageinput = input(@, button.x), !.header_locked = FALSE]
         IN  [d1 EXCEPT !.chargen = insert_data(@, 0, 2, d1.pageinput.input)]
    ELSE IF button.b = "Hold"
    THEN LET d1 == [d EXCEPT !.pageinput = toggle_hold(@)]
             d2 == [d1 EXCEPT !.chargen = insert_data(@, 0, 2, d1.pageinput.input)]
         IN  IF ~d2.pageinput.hold
             THEN [d2 EXCEPT !.header_locked = FALSE,
                             !.chargen = insert_data(@, 0, 7, <<2>>)]
             ELSE d2
    ELSE IF button.b = "Reveal"
    THEN [d EXCEPT !.chargen = reveal(@)]
    ELSE IF button.b = "Mix"
    THEN [d EXCEPT !.chargen = mix(@)]
    ELSE d      \* Fastext, PageNext, PagePrev, TimedPage

----------------------------------------------------------------------------
(* keymap.rs and the events of main.rs *)

NoButton == Button("None", 0)

\* A crossterm input event: a key (code, mods), a resize (cols, rows) or another one.
Input(type, code, mods, cols, rows) ==
    [type |-> type, code |-> code, mods |-> mods, cols |-> cols, rows |-> rows]

KeyIn(code, mods) == Input("Key", code, mods, 0, 0)

ResizeIn(cols, rows) == Input("Resize", "", "NONE", cols, rows)

NoInput == Input("None", "", "NONE", 0, 0)

HexChars == <<"0", "1", "2", "3", "4", "5", "6", "7", "8", "9", "a", "b", "c", "d", "e", "f">>

\* char::to_digit(16) of a character of HexChars.
to_digit(c) == (CHOOSE i \in 1..16 : HexChars[i] = c) - 1

IsHexChar(c) == \E i \in 1..16 : HexChars[i] = c

\* keymap.rs:21-43; the result None is NoButton.
from_event(k) ==
    IF k.mods = "SHIFT"
    THEN IF IsHexChar(k.code) /\ to_digit(k.code) <= 6
         THEN Button("Fastext", to_digit(k.code))
         ELSE NoButton
    ELSE IF k.mods = "NONE"
    THEN IF IsHexChar(k.code) THEN Button("Digit", to_digit(k.code))
         ELSE IF k.code \in {"h", " "} THEN Button("Hold", 0)
         ELSE IF k.code = "r" THEN Button("Reveal", 0)
         ELSE IF k.code = "t" THEN Button("TimedPage", 0)
         ELSE IF k.code \in {"Up", "Right", "PageUp"} THEN Button("PageNext", 0)
         ELSE IF k.code \in {"Down", "Left", "PageDown"} THEN Button("PagePrev", 0)
         ELSE IF k.code = "m" THEN Button("Mix", 0)
         ELSE NoButton
    ELSE NoButton

\* main.rs:24-29, MyEvent.
Event(kind, packet, inp) == [kind |-> kind, packet |-> packet, input |-> inp]

NoEvent == Event("None", <<>>, NoInput)

PacketEv(p) == Event("Packet", p, NoInput)

InputEv(i) == Event("Input", <<>>, i)

EndOfStream == Event("EndOfStream", <<>>, NoInput)

EndOfInput == Event("EndOfInput", <<>>, NoInput)

\* The button an event is mapped to, NoButton when it is none.
ButtonOf(e) ==
    IF e.kind = "Input" /\ e.input.type = "Key" THEN from_event(e.input) ELSE NoButton

\* A loop body that takes EndOfInput for one more input event to skip.
loop_body_skip_eoi(d, e) ==
    IF e.kind = "Packet"
    THEN [decoder |-> process_packet(d, e.packet), brk |-> FALSE]
    ELSE IF e.kind = "Input" /\ e.input.type = "Key"
    THEN IF e.input.code = "q"
         THEN [decoder |-> d, brk |-> TRUE]
         ELSE IF from_event(e.input) # NoButton
         THEN [decoder |-> process_button(d, from_event(e.input)), brk |-> FALSE]
         ELSE [decoder |-> d, brk |-> FALSE]
    ELSE IF e.kind = "Input" /\ e.input.type = "Resize"
    THEN [decoder |-> [d EXCEPT !.chargen = auto_margins(@, e.input.cols, e.input.rows)],
          brk |-> FALSE]
    ELSE IF e.kind \in {"Input", "EndOfInput"}
    THEN [decoder |-> d, brk |-> FALSE]
    ELSE [decoder |-> d, brk |-> TRUE]

\* main.rs:102-114: what one received event does to the decoder, and whether the
\* loop ends with it.
loop_body(d, e) ==
    IF e.kind = "Packet"
    THEN [decoder |-> process_packet(d, e.packet), brk |-> FALSE]
    ELSE IF e.kind = "Input" /\ e.input.type = "Key"
    THEN IF e.input.code = "q"
         THEN [decoder |-> d, brk |-> TRUE]
         ELSE IF from_event(e.input) # NoButton
         THEN [decoder |-> process_button(d, from_event(e.input)), brk |-> FALSE]
         ELSE [decoder |-> d, brk |-> FALSE]
    ELSE IF e.kind = "Input" /\ e.input.type = "Resize"
    THEN [decoder |-> [d EXCEPT !.chargen = auto_margins(@, e.input.cols, e.input.rows)],
          brk |-> FALSE]
    ELSE IF e.kind = "Input"
    THEN [decoder |-> d, brk |-> FALSE]
    ELSE [decoder |-> d, brk |-> TRUE]

----------------------------------------------------------------------------
(* The input sets the events are drawn from *)

\* A 42-byte header packet: address, page, six control bytes, 32 text bytes.
MkHeader(mg, page, erase, text) ==
    << hamming8_encode(mg), hamming8_encode(0),
       hamming8_encode(page % 16), hamming8_encode(page \div 16),
       hamming8_encode(0), hamming8_encode(8 * erase),
       hamming8_encode(0), hamming8_encode(0),
       hamming8_encode(0), hamming8_encode(0) >> \o Fill(32, text)

\* A 42-byte packet of row 1..31: address and 40 data bytes.
MkBody(mg, row, text) ==
    << hamming8_encode(mg + 8 * (row % 2)), hamming8_encode(row \div 2) >> \o Fill(40, text)

PktMags == {0, 1}

PktPages == {0, 8}

PktRows == {1, 24, 25, 31}

PktText == {65, 66}

Packets ==
    { MkHeader(m, p, e, 72) : m \in PktMags, p \in PktPages, e \in {0, 1} }
    \cup { MkBody(m, r, t) : m \in PktMags, r \in PktRows, t \in PktText }

\* The keys pressed: magazine 8, page digit 0, page digit 8, Hold and PageNext.
PressedKeys == { KeyIn(c, "NONE") : c \in {"0", "8", "h", "Up"} }

\* The reported terminal size at start-up.
TermSizes == { <<80, 25>> }

----------------------------------------------------------------------------
(* The decoder driven by packet and key events (main.rs:101-115) *)

Begin(d) == [d EXCEPT !.chargen.out = <<>>]

PageKey(d) == <<d.pageinput.mag, d.pageinput.page>>

Accepted(d, p) == ~d.pageinput.hold /\ mrag(Slice(p, 0, 2))[1] = d.pageinput.mag

RowOf(p) == mrag(Slice(p, 0, 2))[2]

Idle(d) == d.pageinput.input_pos = 2 /\ ~d.pageinput.manual_hold

\* e is a header of the selected magazine, with the selected page, that d does not hold back.
IsMatchHeader(d, e) ==
    /\ e.kind = "Packet"
    /\ Accepted(d, e.packet)
    /\ RowOf(e.packet) = 0
    /\ hamming16_decode(Slice(e.packet, 2, 4)) = d.pageinput.page

\* The consumer loop is at its recv, no worker is described.
MuxNone == [mpc |-> "recv"]

Init ==
    /\ \E sz \in TermSizes : decoder = DecoderNew(sz[1], sz[2])
    /\ ev = NoEvent
    /\ after_match = FALSE
    /\ confirmed = FALSE
    /\ entry = <<>>
    /\ nkeys = 0
    /\ mux = MuxNone
    /\ term = Display(TermAcquired, decoder.chargen)

\* One turn of the loop on event e: the decoder and the history of the turn.
Turn(e) ==
    /\ decoder' = loop_body(Begin(decoder), e).decoder
    /\ term' = Display(term, decoder'.chargen)
    /\ ev' = e
    /\ after_match' = IsMatchHeader(decoder, ev)
    /\ confirmed' = IF IsMatchHeader(decoder, e) THEN TRUE
                    ELSE confirmed /\ PageKey(decoder') = PageKey(decoder)

Packet ==
    \E p \in Packets :
        /\ Turn(PacketEv(p))
        /\ UNCHANGED <<entry, nkeys, mux>>

Press ==
    \E k \in PressedKeys :
        /\ Turn(InputEv(k))
        /\ UNCHANGED <<entry, nkeys, mux>>

Next == Packet \/ Press

Spec == Init /\ [][Next]_vars

----------------------------------------------------------------------------
(* The page selector alone, driven by every digit 0..15, Hold and TimedPage, *)
(* for a bounded number of key presses.                                      *)

MaxKeys == 3

SelectorKeys ==
    { KeyIn(HexChars[i], "NONE") : i \in 1..16 } \cup { KeyIn("h", "NONE"), KeyIn("t", "NONE") }

Key ==
    \E k \in SelectorKeys :
        /\ nkeys < MaxKeys
        /\ Turn(InputEv(k))
        /\ entry' = IF Idle(decoder) THEN <<from_event(k)>> ELSE Append(entry, from_event(k))
        /\ nkeys' = nkeys + 1
        /\ UNCHANGED mux

NextSel == Key

SpecSel == Init /\ [][NextSel]_vars

----------------------------------------------------------------------------
(* The event multiplexer (main.rs:32-92) and the consumer loop behind it.  *)
(* The channel has no buffer (main.rs:33): a send completes in one step    *)
(* with the recv that takes it.  A worker's buf holds what it still has to *)
(* send, produced what it has read to send, in reading order; tfailed and  *)
(* kfailed record that the worker's read has failed.                       *)

MaxReads == 2

MaxInputs == 2

TransportKinds == {"file", "tcp", "udp"}

MuxPackets == { MkHeader(1, 0, 0, 72), MkBody(1, 1, 65) }

\* Hold, the quit key, and an event the loop passes over (main.rs:112).
MuxInputs == { KeyIn("h", "NONE"), KeyIn("q", "NONE"), Input("FocusGained", "", "NONE", 0, 0) }

\* UDP datagrams as their sender built them: whole packets, and stray bytes after
\* them: two packets, one packet, and one packet with a stray byte.
Datagrams ==
    { [pkts |-> <<MkHeader(1, 0, 0, 72), MkBody(1, 1, 65)>>, stray |-> <<>>],
      [pkts |-> <<MkBody(1, 1, 65)>>, stray |-> <<>>],
      [pkts |-> <<MkBody(1, 1, 65)>>, stray |-> <<0>>] }

RECURSIVE Flatten(_)
Flatten(ss) == IF ss = <<>> THEN <<>> ELSE Head(ss) \o Flatten(Tail(ss))

\* The bytes recv_from puts into the buffer for datagram dg.
Payload(dg) == Flatten(dg.pkts) \o dg.stray

\* The packets a well-formed datagram carries, in the order they were put in.
Carried(dg) == IF dg.stray = <<>> THEN [i \in 1..Len(dg.pkts) |-> PacketEv(dg.pkts[i])] ELSE <<>>

\* The chunks in reverse order.
chunks_reversed(buf) ==
    [i \in 1..(Len(buf) \div 42) |->
        PacketEv(SubSeq(buf, Len(buf) - (Len(buf) % 42) - 42 * i + 1,
                             Len(buf) - (Len(buf) % 42) - 42 * (i - 1)))]

\* main.rs:46-47, buffer.chunks_exact(42), each chunk as the event sent for it.
chunks_exact(buf) ==
    [i \in 1..(Len(buf) \div 42) |-> PacketEv(SubSeq(buf, 42 * (i - 1) + 1, 42 * i))]

\* main.rs:45-51: what a datagram of amt = Len(buf) bytes makes the worker send.
datagram_events(buf) == IF Len(buf) % 42 = 0 THEN chunks_exact(buf) ELSE <<>>

MuxStart(kind) ==
    [ mpc |-> "recv", cur |-> NoEvent, kind |-> kind,
      tpc |-> "read", tbuf |-> <<>>, kpc |-> "read", kbuf |-> <<>>,
      tin |-> 0, kin |-> 0, tfailed |-> FALSE, kfailed |-> FALSE,
      produced |-> [t |-> <<>>, k |-> <<>>],
      received |-> <<>>, applied |-> 0 ]

InitMux ==
    /\ \E sz \in TermSizes : decoder = DecoderNew(sz[1], sz[2])
    /\ ev = NoEvent
    /\ after_match = FALSE
    /\ confirmed = FALSE
    /\ entry = <<>>
    /\ nkeys = 0
    /\ \E kind \in TransportKinds : mux = MuxStart(kind)
    /\ term = Display(TermAcquired, decoder.chargen)

Quiet == UNCHANGED <<decoder, ev, after_match, confirmed, entry, nkeys, term>>

\* main.rs:64-76, the file or TCP worker at read_exact: a packet, or end of stream.
TransportRead ==
    /\ mux.kind \in {"file", "tcp"}
    /\ mux.tpc = "read"
    /\ \/ \E p \in MuxPackets :
            /\ mux.tin < MaxReads
            /\ mux' = [mux EXCEPT !.tbuf = <<PacketEv(p)>>, !.tpc = "send",
                                  !.tin = @ + 1,
                                  !.produced.t = Append(@, PacketEv(p))]
       \/ mux' = [mux EXCEPT !.tbuf = <<EndOfStream>>, !.tpc = "send", !.tfailed = TRUE,
                             !.produced.t = Append(@, EndOfStream)]
    /\ Quiet

\* main.rs:42-53, the UDP worker at recv_from: a datagram, or an error that the
\* unwrap turns into a panic of the worker.
DatagramRead ==
    /\ mux.kind = "udp"
    /\ mux.tpc = "read"
    /\ \/ \E dg \in Datagrams :
            /\ mux.tin < MaxReads
            /\ mux' = [mux EXCEPT !.tbuf = datagram_events(Payload(dg)),
                                  !.tpc = IF datagram_events(Payload(dg)) = <<>>
                                          THEN "read" ELSE "send",
                                  !.tin = @ + 1,
                                  !.produced.t = @ \o Carried(dg)]
       \/ mux' = [mux EXCEPT !.tpc = "panicked", !.tfailed = TRUE]
    /\ Quiet

\* main.rs:79-89, the keyboard worker at crossterm::event::read.
KeyboardRead ==
    /\ mux.kpc = "read"
    /\ \/ \E i \in MuxInputs :
            /\ mux.kin < MaxInputs
            /\ mux' = [mux EXCEPT !.kbuf = <<InputEv(i)>>, !.kpc = "send",
                                  !.kin = @ + 1,
                                  !.produced.k = Append(@, InputEv(i))]
       \/ mux' = [mux EXCEPT !.kbuf = <<EndOfInput>>, !.kpc = "send", !.kfailed = TRUE,
                             !.produced.k = Append(@, EndOfInput)]
    /\ Quiet

\* Where a worker goes once its send of e returned Ok, rest being left to send.
after_send(e, rest) ==
    IF e.kind \in {"EndOfStream", "EndOfInput"} THEN "exit"
    ELSE IF rest = <<>> THEN "read"
    ELSE "send"

\* main.rs:102 with the transport worker's send (main.rs:47, 69, 72).
RecvTransport ==
    /\ mux.mpc = "recv"
    /\ mux.tpc = "send"
    /\ mux' = [mux EXCEPT !.cur = Head(mux.tbuf), !.mpc = "handle",
                          !.received = Append(@, [from |-> "t", e |-> Head(mux.tbuf)]),
                          !.tbuf = Tail(@),
                          !.tpc = after_send(Head(mux.tbuf), Tail(mux.tbuf))]
    /\ Quiet

\* main.rs:102 with the keyboard worker's send (main.rs:82, 85).
RecvKeyboard ==
    /\ mux.mpc = "recv"
    /\ mux.kpc = "send"
    /\ mux' = [mux EXCEPT !.cur = Head(mux.kbuf), !.mpc = "handle",
                          !.received = Append(@, [from |-> "k", e |-> Head(mux.kbuf)]),
                          !.kbuf = Tail(@),
                          !.kpc = after_send(Head(mux.kbuf), Tail(mux.kbuf))]
    /\ Quiet

\* main.rs:103-114, the received event is applied; the loop goes on or ends.
Handle ==
    /\ mux.mpc = "handle"
    /\ Turn(mux.cur)
    /\ mux' = [mux EXCEPT !.mpc = IF loop_body(Begin(decoder), mux.cur).brk
                                  THEN "done" ELSE "recv",
                          !.cur = NoEvent,
                          !.applied = @ + 1]
    /\ UNCHANGED <<entry, nkeys>>

\* A send after the loop ended and the receiver is gone returns an error: the
\* worker returns (main.rs:47-49, 69, 72, 82, 85).
SendFailTransport ==
    /\ mux.mpc = "done"
    /\ mux.tpc = "send"
    /\ mux' = [mux EXCEPT !.tpc = "exit", !.tbuf = <<>>]
    /\ Quiet

SendFailKeyboard ==
    /\ mux.mpc = "done"
    /\ mux.kpc = "send"
    /\ mux' = [mux EXCEPT !.kpc = "exit", !.kbuf = <<>>]
    /\ Quiet

NextMux ==
    \/ TransportRead
    \/ DatagramRead
    \/ KeyboardRead
    \/ RecvTransport
    \/ RecvKeyboard
    \/ Handle
    \/ SendFailTransport
    \/ SendFailKeyboard

SpecMux == InitMux /\ [][NextMux]_vars

----------------------------------------------------------------------------
(* The session from start-up to exit: main (main.rs:95-116), Decoder::new  *)
(* (decoder.rs:105-116), CharGen::new and drop (chargen.rs:44-79).  Every  *)
(* call that returns an io::Result either succeeds or fails.  mux.workers  *)
(* is the set of worker threads that exist, mux.err the failure that ended *)
(* the session, mux.size what size() reported, mux.drops the number of     *)
(* times drop ran.                                                        *)

StartSizes == { <<80, 25>>, <<41, 25>>, <<40, 25>>, <<41, 24>>, <<40, 24>> }

StartEvents ==
    { PacketEv(MkHeader(1, 0, 1, 72)), PacketEv(MkBody(1, 1, 65)),
      InputEv(KeyIn("h", "NONE")), InputEv(KeyIn("q", "NONE")), InputEv(KeyIn("t", "NONE")),
      InputEv(ResizeIn(100, 40)), EndOfStream, EndOfInput }

\* decoder.rs:106-111, the fields of the Decoder before its first write.
DecoderFields ==
    [ header_matched |-> FALSE, header_locked |-> FALSE, pageinput |-> PageInputDefault,
      chargen |-> CharGenNew ]

\* A handler that sent something to the terminal; only such a handler can fail.
Draws(o) == \E i \in 1..Len(o) : o[i].op \in {"render_row", "clear_page", "redraw"}

InitStart ==
    /\ decoder = DecoderFields
    /\ ev = NoEvent
    /\ after_match = FALSE
    /\ confirmed = FALSE
    /\ entry = <<>>
    /\ nkeys = 0
    /\ mux = [mpc |-> "spawn", workers |-> {}, err |-> "none", size |-> <<0, 0>>,
              drops |-> 0, panicked |-> FALSE]
    /\ term = TermFound

Asleep == UNCHANGED <<decoder, ev, after_match, confirmed, entry, nkeys>>

\* main.rs:97, spawn_event_channel: the source cannot be opened (main.rs:37-40,
\* 57-61, before any thread::spawn), or both workers are spawned (main.rs:42-89).
Spawn ==
    /\ mux.mpc = "spawn"
    /\ \/ mux' = [mux EXCEPT !.mpc = "exit", !.err = "source"]
       \/ mux' = [mux EXCEPT !.mpc = "size", !.workers = {"transport", "keyboard"}]
    /\ UNCHANGED term
    /\ Asleep

\* chargen.rs:57-68: size() fails, or the size is too small, or the CharGen value
\* is built.
Size ==
    /\ mux.mpc = "size"
    /\ \/ mux' = [mux EXCEPT !.mpc = "exit", !.err = "size"]
       \/ \E sz \in StartSizes :
            mux' = IF too_small(sz[1], sz[2])
                   THEN [mux EXCEPT !.mpc = "exit", !.err = "small", !.size = sz]
                   ELSE [mux EXCEPT !.mpc = "raw", !.size = sz]
    /\ UNCHANGED term
    /\ Asleep

\* chargen.rs:70, enable_raw_mode()?: on failure the CharGen value built at line 62
\* goes out of scope and is dropped.
EnableRaw ==
    /\ mux.mpc = "raw"
    /\ \/ /\ term' = term_command(term, "enable_raw_mode")
          /\ mux' = [mux EXCEPT !.mpc = "enter"]
       \/ /\ term' = term
          /\ mux' = [mux EXCEPT !.mpc = "drop", !.err = "raw"]
    /\ Asleep

\* chargen.rs:71-77, execute!(..)?: all five commands, or a failure after n of them.
EnterScreen ==
    /\ mux.mpc = "enter"
    /\ \/ /\ term' = term_commands(term, AcquireCommands)
          /\ mux' = [mux EXCEPT !.mpc = "insert"]
       \/ \E n \in 0..(Len(AcquireCommands) - 1) :
            /\ term' = term_commands(term, SubSeq(AcquireCommands, 1, n))
            /\ mux' = [mux EXCEPT !.mpc = "drop", !.err = "enter"]
    /\ Asleep

\* decoder.rs:113
FirstInsert ==
    /\ mux.mpc = "insert"
    /\ decoder' = [decoder EXCEPT !.chargen = insert_data(@, 0, 2, decoder.pageinput.input)]
    /\ term' = Display(term, decoder'.chargen)
    /\ \/ mux' = [mux EXCEPT !.mpc = "margins"]
       \/ mux' = [mux EXCEPT !.mpc = "drop", !.err = "io"]
    /\ UNCHANGED <<ev, after_match, confirmed, entry, nkeys>>

\* decoder.rs:114
FirstMargins ==
    /\ mux.mpc = "margins"
    /\ decoder' = [decoder EXCEPT
                      !.chargen = auto_margins(Begin(decoder).chargen, mux.size[1], mux.size[2])]
    /\ term' = Display(term, decoder'.chargen)
    /\ \/ mux' = [mux EXCEPT !.mpc = "recv"]
       \/ mux' = [mux EXCEPT !.mpc = "drop", !.err = "io"]
    /\ UNCHANGED <<ev, after_match, confirmed, entry, nkeys>>

\* main.rs:101-115, one received event: the loop goes on, breaks, or the handler
\* returns the error of a failed write to the terminal.
Session ==
    /\ mux.mpc = "recv"
    /\ \E e \in StartEvents :
         /\ Turn(e)
         /\ \/ mux' = [mux EXCEPT !.mpc = IF loop_body(Begin(decoder), e).brk
                                          THEN "drop" ELSE "recv"]
            \/ /\ Draws(loop_body(Begin(decoder), e).decoder.chargen.out)
               /\ mux' = [mux EXCEPT !.mpc = "drop", !.err = "io"]
    /\ UNCHANGED <<entry, nkeys>>

\* chargen.rs:44-53, the CharGen value is dropped: the terminal is released, or the
\* execute! fails after n commands and expect panics.
Drop ==
    /\ mux.mpc = "drop"
    /\ \/ /\ term' = drop(term)
          /\ mux' = [mux EXCEPT !.mpc = "exit", !.drops = @ + 1]
       \/ \E n \in 0..(Len(ReleaseCommands) - 1) :
            /\ term' = drop_panics(term, n)
            /\ mux' = [mux EXCEPT !.mpc = "exit", !.drops = @ + 1, !.panicked = TRUE]
    /\ Asleep

NextStart ==
    \/ Spawn
    \/ Size
    \/ EnableRaw
    \/ EnterScreen
    \/ FirstInsert
    \/ FirstMargins
    \/ Session
    \/ Drop

SpecStart == InitStart /\ [][NextStart]_vars

----------------------------------------------------------------------------
(* The renderer driven by rows that carry the flash (0x08) and conceal     *)
(* (0x18) control bytes, and by the Reveal and Mix buttons.                 *)

RenderText == {8, 24, 65}

RenderPackets == { MkHeader(1, 0, 1, 72) } \cup { MkBody(1, 1, t) : t \in RenderText }

RenderKeys == { KeyIn(c, "NONE") : c \in {"r", "m"} }

RenderPacket ==
    \E p \in RenderPackets :
        /\ Turn(PacketEv(p))
        /\ UNCHANGED <<entry, nkeys, mux>>

RenderPress ==
    \E k \in RenderKeys :
        /\ Turn(InputEv(k))
        /\ UNCHANGED <<entry, nkeys, mux>>

NextRender == RenderPacket \/ RenderPress

SpecRender == Init /\ [][NextRender]_vars

----------------------------------------------------------------------------
(* Properties *)

PI == decoder.pageinput

Grid == decoder.chargen.grid

Out == decoder.chargen.out

\* The glyphs of "0123456789ABCDEF".
HexGlyph == <<48, 49, 50, 51, 52, 53, 54, 55, 56, 57, 65, 66, 67, 68, 69, 70>>

IsDigit(b) == b.b = "Digit"

IsPacketEv(e) == e.kind = "Packet"

IsDigitEv(e) == IsDigit(ButtonOf(e))

\* The row-0 cells under the selection indicator (columns 2..7).
Indicator(g) == SubSeq(g[0], 3, 8)

\* entry is a full page entry started from Idle: magazine digit, high digit, low digit.
FullEntry ==
    /\ Len(entry) = 3
    /\ \A i \in 1..3 : IsDigit(entry[i])
    /\ entry[1].x \in 1..8

\* C1: from Idle, the digits d (1..8), hi, lo commit PageKey {d & 7, hi*16 + lo},
\* clear hold and return the selector to Idle, the indicator showing " P<d><hi><lo>"
\* with the ready marker.
C1_EntryCommits ==
    FullEntry =>
        /\ PI.mag = entry[1].x % 8
        /\ PI.page = entry[2].x * 16 + entry[3].x
        /\ ~PI.hold
        /\ ~PI.manual_hold
        /\ PI.input_pos = 2
        /\ PI.input = <<32, 80, HexGlyph[entry[1].x + 1], HexGlyph[entry[2].x + 1],
                        HexGlyph[entry[3].x + 1], 2>>
        /\ Indicator(Grid) = PI.input

\* Magazine 8 with page 0xAF has been entered from Idle.
C1_Witness ==
    /\ FullEntry
    /\ entry[1].x = 8 /\ entry[2].x = 10 /\ entry[3].x = 15
    /\ PI.mag = 0 /\ PI.page = 175

\* C2: a digit pressed in manual hold leaves manual hold, so manual hold never
\* coexists with an entry in progress (cursor 3 or 4).
C2_DigitLeavesManualHold ==
    /\ IsDigitEv(ev) => ~PI.manual_hold
    /\ ~(PI.manual_hold /\ PI.input_pos \in {3, 4})

\* C3: from Idle, Hold enters manual hold with the PageKey unchanged, and a second
\* Hold restores the selector: PageKey, hold, cursor and the six indicator bytes.
C3_HoldTwiceRestores ==
    [][ (Idle(decoder) /\ ButtonOf(ev').b = "Hold") =>
            LET back == process_button(Begin(decoder'), Button("Hold", 0))
            IN  /\ PI'.manual_hold /\ PI'.hold
                /\ PageKey(decoder') = PageKey(decoder)
                /\ back.pageinput = PI ]_vars

HasRender(o) == \E i \in 1..Len(o) : o[i].op = "render_row"

\* C4: a packet that arrives while hold is true, or for another magazine, changes
\* neither the grid nor matched nor locked, and renders nothing.
C4_IgnoredPacket ==
    [][ (IsPacketEv(ev') /\ ~Accepted(decoder, ev'.packet)) =>
            /\ Grid' = Grid
            /\ decoder'.header_matched = decoder.header_matched
            /\ decoder'.header_locked = decoder.header_locked
            /\ ~HasRender(Out') ]_vars

\* A header of the selected magazine and page was processed in manual hold after
\* the page had been acquired.
C4_Witness ==
    /\ IsPacketEv(ev)
    /\ PI.hold /\ PI.manual_hold
    /\ mrag(Slice(ev.packet, 0, 2)) = <<PI.mag, 0>>
    /\ hamming16_decode(Slice(ev.packet, 2, 4)) = PI.page
    /\ ~decoder.header_locked
    /\ Out = <<>>

IsBodyEv(d, e) ==
    /\ IsPacketEv(e)
    /\ mrag(Slice(e.packet, 0, 2))[1] = d.pageinput.mag
    /\ RowOf(e.packet) \in 1..24

\* C5: a processed header with the selected page sets matched and locked, and a body
\* row of the same magazine processed next is in the grid.
C5_HeaderThenBody ==
    /\ IsMatchHeader(decoder, ev) => decoder.header_matched /\ decoder.header_locked
    /\ (after_match /\ IsBodyEv(decoder, ev)) =>
           Grid[RowOf(ev.packet)] = SliceFrom(ev.packet, 2)

\* Row 24 was drawn from a packet that directly followed the matching header.
C5_Witness ==
    /\ after_match
    /\ IsBodyEv(decoder, ev)
    /\ RowOf(ev.packet) = 24
    /\ Grid[24] = SliceFrom(ev.packet, 2)
    /\ HasRender(Out)

\* C6: no body row is written before a header with the current PageKey has been
\* processed, at start-up and after each newly committed PageKey.
C6_NoBodyBeforeHeader ==
    (IsBodyEv(decoder, ev) /\ Out # <<>>) => confirmed

IndexOf(o, op) == CHOOSE i \in 1..Len(o) : o[i].op = op

HasCall(o, op) == \E i \in 1..Len(o) : o[i].op = op

\* ev is a processed header with the selected page and the erase-page bit.
IsEraseHeader ==
    /\ IsMatchHeader(decoder, ev)
    /\ control_bits(Slice(ev.packet, 4, 12)) % 2 = 1

\* C7 as claimed: the body rows are cleared before the header text is written.
C7_ClearBeforeHeaderText ==
    IsEraseHeader =>
        /\ HasCall(Out, "clear_page")
        /\ \A i \in 1..Len(Out) :
               (Out[i].op = "insert_data" /\ Out[i].row = 0) => IndexOf(Out, "clear_page") < i

\* C7 amended: the body rows are cleared after the header text and the lock marker
\* are written; the clear leaves row 0 as written and rows 1..24 blank.
C7_ClearAfterHeaderText ==
    IsEraseHeader =>
        /\ Len(Out) >= 3
        /\ Out[1].op = "insert_data" /\ Out[1].row = 0 /\ Out[1].col \in {8, 31}
        /\ Out[1].data = SliceFrom(ev.packet, Out[1].col + 2)
        /\ Out[Len(Out)].op = "clear_page"
        /\ \A i \in 1..(Len(Out) - 1) : Out[i].op # "clear_page"
        /\ \E i \in 2..(Len(Out) - 1) :
               Out[i].op = "insert_data" /\ Out[i].row = 0 /\ Out[i].col = 7
        /\ SubSeq(Grid[0], Out[1].col + 1, 40) = Out[1].data
        /\ Grid[0][8] = 7
        /\ \A r \in 1..24 : Grid[r] = Fill(40, 0)

\* An erase header cleared a page whose header text it had just changed.
C7_Witness ==
    /\ IsEraseHeader
    /\ Out[1].old # Out[1].data
    /\ Out[2].op = "render_row"
    /\ Out[Len(Out)].op = "clear_page"

\* The cells of row that a write of data at col leaves.
Written(g, row, col, data) ==
    [g EXCEPT ![row] = [i \in 1..40 |->
        IF i \in (col + 1)..(col + Len(data)) THEN data[i - col] ELSE @[i]]]

OneInsert(o) ==
    /\ Cardinality({i \in 1..Len(o) : o[i].op = "insert_data"}) = 1
    /\ ~HasCall(o, "clear_page")
    /\ o[1].op = "insert_data"

\* C8: insert_data renders its row exactly once and updates the grid when the bytes
\* differ from the grid, and does nothing when they are equal; the same write twice
\* in a row renders at most once.
C8_InsertDataOnce ==
    [][ /\ \A i \in 1..Len(Out') :
               Out'[i].op = "insert_data" =>
                   IF Out'[i].data # Out'[i].old
                   THEN /\ i < Len(Out')
                        /\ Out'[i + 1].op = "render_row" /\ Out'[i + 1].row = Out'[i].row
                        /\ (i + 2 <= Len(Out') => Out'[i + 2].op # "render_row")
                   ELSE i = Len(Out') \/ Out'[i + 1].op # "render_row"
        /\ OneInsert(Out') =>
               /\ Out'[1].old = SubSeq(Grid[Out'[1].row], Out'[1].col + 1,
                                       Out'[1].col + Len(Out'[1].data))
               /\ Grid' = Written(Grid, Out'[1].row, Out'[1].col, Out'[1].data)
        /\ (OneInsert(Out') /\ OneInsert(Out) /\ ev' = ev /\ IsBodyEv(decoder, ev)) =>
               ~(HasRender(Out) /\ HasRender(Out')) ]_vars

\* The same body row arrived again: insert_data was called and drew nothing.
C8_Witness ==
    /\ IsBodyEv(decoder, ev)
    /\ Len(Out) = 1
    /\ Out[1].op = "insert_data"
    /\ Out[1].old = Out[1].data
    /\ Out[1].data = SliceFrom(ev.packet, 2)
    /\ Out[1].data # Fill(40, 0)

IsTerminal(e) == e.kind \in {"EndOfStream", "EndOfInput"}

\* C9: EndOfStream and EndOfInput each end the consumer loop, and no event is
\* received or processed after them, whatever the other worker is doing.
C9_TerminalEventEndsLoop ==
    /\ \A i \in 1..Len(mux.received) :
           IsTerminal(mux.received[i].e) =>
               i = Len(mux.received) /\ mux.mpc \in {"handle", "done"}
    /\ IsTerminal(ev) => mux.mpc = "done" /\ Out = <<>>
    /\ mux.mpc = "done" => mux.applied = Len(mux.received) /\ mux.cur = NoEvent

\* EndOfInput ended the loop while the transport worker stands in a send of a packet.
C9_Witness ==
    /\ mux.mpc = "done"
    /\ ev = EndOfInput
    /\ mux.tpc = "send"
    /\ mux.tbuf # <<>>
    /\ Head(mux.tbuf).kind = "Packet"

FromT(r) == r.from = "t"

FromK(r) == r.from = "k"

EventsOf(rs) == [i \in 1..Len(rs) |-> rs[i].e]

ReceivedT == EventsOf(SelectSeq(mux.received, FromT))

ReceivedK == EventsOf(SelectSeq(mux.received, FromK))

IsPrefix(a, b) == Len(a) <= Len(b) /\ SubSeq(b, 1, Len(a)) = a

\* C10: what the consumer receives from one worker is what that worker had to send,
\* in its order, nothing lost, doubled or swapped while the loop runs; an event is
\* applied before the next one is received.
C10_PerSourceOrder ==
    /\ IsPrefix(ReceivedT, mux.produced.t)
    /\ IsPrefix(ReceivedK, mux.produced.k)
    /\ mux.mpc # "done" =>
           /\ ReceivedT \o mux.tbuf = mux.produced.t
           /\ ReceivedK \o mux.kbuf = mux.produced.k
    /\ Len(mux.received) = mux.applied + (IF mux.mpc = "handle" THEN 1 ELSE 0)

\* Both packets of one datagram were applied, a key press between them.
C10_Witness ==
    /\ mux.kind = "udp"
    /\ Len(mux.received) = 3
    /\ mux.applied = 3
    /\ mux.received[1].from = "t" /\ mux.received[2].from = "k" /\ mux.received[3].from = "t"
    /\ mux.received[1].e # mux.received[3].e

\* The command that enters the mode a release command leaves.
EnteredBy ==
    [ Show |-> "Hide", EnableLineWrap |-> "DisableLineWrap",
      LeaveAlternateScreen |-> "EnterAlternateScreen", disable_raw_mode |-> "enable_raw_mode" ]

IsRelease(c) == c \in DOMAIN EnteredBy

\* The session ended after CharGen::new had started to acquire the terminal.
EndedAcquired == mux.mpc = "exit" /\ mux.err \notin {"source", "size", "small"}

\* C11: on every exit after terminal acquisition has begun the terminal is as it was
\* found, the teardown ran exactly once, and each mode it leaves was entered before.
C11_TerminalLeftAsFound ==
    EndedAcquired =>
        /\ ~term.raw /\ ~term.alt /\ term.cursor /\ term.wrap
        /\ mux.drops = 1
        /\ \A i \in 1..Len(term.cmds) :
               IsRelease(term.cmds[i]) =>
                   /\ \E j \in 1..(i - 1) : term.cmds[j] = EnteredBy[term.cmds[i]]
                   /\ \A j \in 1..Len(term.cmds) : term.cmds[j] = term.cmds[i] => j = i

\* C12: a reported size below 41 columns or 25 rows ends the construction with the
\* too-small error, no command sent to the terminal, no mode changed, no teardown.
C12_TooSmallFailsClean ==
    (mux.size # <<0, 0>> /\ (mux.size[1] < 41 \/ mux.size[2] < 25)) =>
        /\ mux.mpc = "exit"
        /\ mux.err = "small"
        /\ term = TermFound
        /\ mux.drops = 0

\* A terminal of 41 x 24 was refused.
C12_Witness ==
    /\ mux.size = <<41, 24>>
    /\ mux.mpc = "exit"
    /\ mux.err = "small"
    /\ term.cmds = <<>>

\* C17: when a start-up failure is returned, no worker thread exists.
C17_NoWorkerAtStartupError ==
    (mux.mpc = "exit" /\ mux.err \in {"source", "size", "small", "raw", "enter"}) =>
        mux.workers = {}

\* ev' is a body row (1..24) of the selected magazine that arrives with hold false.
BodyArrives ==
    /\ IsPacketEv(ev')
    /\ Accepted(decoder, ev'.packet)
    /\ RowOf(ev'.packet) \in 1..24

\* C13: a body row of the selected magazine processed with hold false is written into
\* its grid row when locked is true and ignored when locked is false.
C13_BodyGatedByLocked ==
    [][ BodyArrives =>
            IF decoder.header_locked
            THEN Grid'[RowOf(ev'.packet)] = SliceFrom(ev'.packet, 2)
            ELSE Grid' = Grid /\ ~HasRender(Out') ]_vars

\* C14: locked, once true, is cleared only by a button that changes the PageKey or
\* turns hold off; no packet and no other button clears it.
C14_LockedSticky ==
    [][ (decoder.header_locked /\ ~decoder'.header_locked) =>
            /\ ButtonOf(ev') # NoButton
            /\ \/ PageKey(decoder') # PageKey(decoder)
               \/ decoder.pageinput.hold /\ ~decoder'.pageinput.hold ]_vars

\* C15: outside manual hold, a digit that the cursor position does not accept (0 or
\* 9..15 at cursor 2) changes neither the selector nor any cell of the grid.
C15_RejectedDigitIgnored ==
    [][ ( /\ ~decoder.pageinput.manual_hold
          /\ IsDigitEv(ev')
          /\ decoder.pageinput.input_pos = 2
          /\ ButtonOf(ev').x \notin 1..8 ) =>
            /\ decoder'.pageinput = decoder.pageinput
            /\ Grid' = Grid ]_vars

\* The events of kind k among es.
OfKind(es, k) == { i \in 1..Len(es) : es[i].kind = k }

\* C16: a transport worker (file, TCP or UDP) whose read has failed puts exactly one
\* EndOfStream on the channel, as its last event, and the keyboard worker whose read
\* has failed exactly one EndOfInput; a worker whose read has not failed puts none.
C16_ReadFailureSendsOneEnd ==
    /\ OfKind(mux.produced.t, "EndOfStream") =
           IF mux.tfailed THEN {Len(mux.produced.t)} ELSE {}
    /\ OfKind(mux.produced.k, "EndOfInput") =
           IF mux.kfailed THEN {Len(mux.produced.k)} ELSE {}
    /\ mux.tfailed => Len(mux.produced.t) > 0
    /\ mux.kfailed => Len(mux.produced.k) > 0

\* C18: every glyph is printed while the terminal's hidden and blink attributes equal
\* the conceal and flash values derived for its cell, the first cells of a row drawn
\* after a row that ended with conceal or flash on included.
C18_AttributesInSync == ~term.misprint

\* C19: every insert_data call of a packet or button handler addresses the grid in
\* range, row <= 25 and col + length <= 40, so no handler aborts on an index.
C19_WritesInRange ==
    \A i \in 1..Len(Out) :
        /\ Out[i].op # "panic"
        /\ Out[i].op = "insert_data" =>
               Out[i].row <= 25 /\ Out[i].col + Len(Out[i].data) <= 40

\* A packet of row 31 of the selected magazine arrived after the page was acquired,
\* and nothing was written for it.
C19_Witness ==
    /\ IsPacketEv(ev)
    /\ mrag(Slice(ev.packet, 0, 2)) = <<PI.mag, 31>>
    /\ ~PI.hold
    /\ decoder.header_matched
    /\ Out = <<>>

\* The calls of o that write into row 0.
Row0Writes(o) == { i \in 1..Len(o) : o[i].op = "insert_data" /\ o[i].row = 0 }

\* C20: after construction and after every event, row 0 columns 2..6 hold the first
\* five indicator bytes; a packet leaves row 0 columns 0..6 as they are, a header
\* writing only columns 8..39 (unlocked) or 31..39 (locked) and the marker at column 7.
C20_IndicatorOnRow0 ==
    /\ SubSeq(Grid[0], 3, 7) = SubSeq(PI.input, 1, 5)
    /\ [][ IsPacketEv(ev') =>
             /\ SubSeq(Grid'[0], 1, 7) = SubSeq(Grid[0], 1, 7)
             /\ \A i \in Row0Writes(Out') :
                    \/ Out'[i].col = 7 /\ Len(Out'[i].data) = 1
                    \/ /\ Out'[i].col = IF decoder.header_locked THEN 31 ELSE 8
                       /\ Out'[i].col + Len(Out'[i].data) = 40 ]_vars
    /\ [][ SubSeq(Grid'[0], 3, 7) = SubSeq(PI'.input, 1, 5) ]_vars

\* A header of page 8/08 arrived while that page was locked: it wrote the trailing
\* header text at column 31 and the indicator cells still show " P808".
C20_Witness ==
    /\ IsMatchHeader(decoder, ev)
    /\ \E i \in Row0Writes(Out) : Out[i].col = 31
    /\ SubSeq(Grid[0], 3, 7) = <<32, 80, 56, 48, 56>>
    /\ Grid[0][8] = 7

====
